---- MODULE Spec2Model ----
(***************************************************************************)
(* Model of the call-discovery-and-dispatch engine of llama-cpp-tools      *)
(* (src/src/tool_registry.cpp, src/include/llama_cpp_tools/tool_registry.h)*)
(*                                                                         *)
(* std::string values are sequences of one-character strings.              *)
(***************************************************************************)
EXTENDS Integers, Sequences, FiniteSets, TLC

VARIABLES
    \* process_remote_response_and_execute
    api_response,   \* the json the function is called on
    concurrent,     \* its bool parameter
    tools_,         \* ToolRegistry::tools_: name -> handler
    pc,             \* "idle", "sequential", "concurrent", "done", or "raised" when an
                    \* exception leaves the function
    calls,          \* std::vector<std::pair<std::string, json>> calls
    results,        \* std::vector<ExecutionResult> results
    futs,           \* std::vector<std::future<ExecutionResult>> futs
    runs,           \* per call: how often invoke ran for it, whether it threw, what it returned
    overtaken,      \* some call finished while a call discovered before it was still running
    current,        \* sequential loop: the call whose handler has been entered and has
                    \* not returned yet, 0 when there is none
    \* the stream buffer of process_streaming_response_and_execute
    stream,     \* the bytes the chunk source will deliver, in order
    pos,        \* how many bytes of stream get_chunk has handed out so far
    buffer,     \* std::string buffer
    emitted,    \* every value text the extractor has returned so far, in order
    last,       \* what the latest extractor call was: a chunk pass or the final flush,
                \* with new bytes or none, on leftover bytes or none, values found or none
    \* the registry and its direct entry points
    schemas_,   \* ToolRegistry::schemas_: name -> schema
    latest,     \* per name, the handler and schema of the latest register_tool call
    direct,     \* the latest call of invoke, invoke_concurrent or
                \* handle_tool_call_response, and how it ended
    \* process_streaming_response_and_execute
    spc,        \* "off", "poll" (at get_chunk), "blobs" (in the loop over json_blobs),
                \* "dispatching" (inside process_remote_response_and_execute),
                \* "deliver" (in the loop over batch), "finished"
    blobs,      \* the values of json_blobs the loop has not reached yet
    batch,      \* the outcomes of batch the loop has not reached yet
    delivered,  \* every on_result call so far: the outcome and the value it came from
    examined,   \* how many values the loop over json_blobs has taken up so far
    sink        \* on_result: the tool names whose outcomes make it throw

dvars == <<api_response, concurrent, tools_, pc, calls, results, futs, runs, overtaken, current>>
evars == <<stream, pos, buffer, emitted, last>>
rvars == <<schemas_, latest, direct>>
svars == <<spc, blobs, batch, delivered, examined, sink>>
vars == <<dvars, evars, rvars, svars>>

(***************************************************************************)
(* Bounds                                                                  *)
(***************************************************************************)
\* every stream of at most this many bytes is explored
MaxLen == 4
\* most calls in a response whose dispatch is explored
MaxCalls == 3
\* a chunk read while a stream is processed has at most this many bytes, or it is all
\* that is left of the stream
MaxChunk == 5
\* longest tool_calls list among the response shapes explored for discovery
MaxList == 2

(***************************************************************************)
(* Characters the extractor distinguishes. Every other byte behaves like a *)
(* bracket of the other family outside a string, and like any bracket      *)
(* inside one.                                                             *)
(***************************************************************************)
LBrace == "{"
RBrace == "}"
LBrack == "["
RBrack == "]"
Quote == "\""
Backslash == "\\"

Chars == {LBrace, RBrace, LBrack, RBrack, Quote, Backslash}

RECURSIVE StringsUpTo(_)
StringsUpTo(n) ==
    IF n = 0 THEN {<<>>}
    ELSE LET shorter == StringsUpTo(n - 1)
         IN  shorter \cup {Append(s, c) : s \in {t \in shorter : Len(t) = n - 1}, c \in Chars}

\* Longer streams, with bytes of other kinds, strings that hold brackets and escapes.
SampleStreams ==
    {
      \* {"}"}
      <<"{", "\"", "}", "\"", "}">>,
      \* {"\""}
      <<"{", "\"", "\\", "\"", "\"", "}">>,
      \* {"\"}"}
      <<"{", "\"", "\\", "\"", "}", "\"", "}">>,
      \* x{"a":1}[2]{
      <<"x", "{", "\"", "a", "\"", ":", "1", "}", "[", "2", "]", "{">>,
      \* {"a":[1,{"b":"]"}]}
      <<"{", "\"", "a", "\"", ":", "[", "1", ",", "{", "\"", "b", "\"", ":", "\"", "]", "\"", "}", "]", "}">>,
      \* [{"k":"\\"}]
      <<"[", "{", "\"", "k", "\"", ":", "\"", "\\", "\\", "\"", "}", "]">>,
      \* {"a":"\\\"}"}{}
      <<"{", "\"", "a", "\"", ":", "\"", "\\", "\\", "\\", "\"", "}", "\"", "}", "{", "}">>
    }

(***************************************************************************)
(* extract_complete_json_values                                            *)
(***************************************************************************)
\* const char closer = (opener == '{') ? '}' : ']';
Closer(opener) == IF opener = LBrace THEN RBrace ELSE RBrack

\* while (i < buffer.size() && buffer[i] != '{' && buffer[i] != '[') ++i;
\* Indices are 1-based here: the result is Len(buffer) + 1 when no opener is left.
RECURSIVE NextStart(_, _)
NextStart(buf, i) ==
    IF i <= Len(buf) /\ buf[i] # LBrace /\ buf[i] # LBrack
    THEN NextStart(buf, i + 1)
    ELSE i

\* ScanStep without the escape state: a backslash in a string is an ordinary byte.
ScanStep_NoEscape(c, opener, depth, in_string, escape) ==
    IF in_string
    THEN IF c = Quote
         THEN [depth |-> depth, in_string |-> FALSE, escape |-> FALSE, done |-> FALSE]
         ELSE [depth |-> depth, in_string |-> TRUE, escape |-> FALSE, done |-> FALSE]
    ELSE IF c = Quote
         THEN [depth |-> depth, in_string |-> TRUE, escape |-> escape, done |-> FALSE]
    ELSE IF c = opener
         THEN [depth |-> depth + 1, in_string |-> FALSE, escape |-> escape, done |-> FALSE]
    ELSE IF c = Closer(opener)
         THEN [depth |-> depth - 1, in_string |-> FALSE, escape |-> escape,
               done |-> (depth - 1 = 0)]
    ELSE [depth |-> depth, in_string |-> FALSE, escape |-> escape, done |-> FALSE]

\* One iteration of the for loop, on character c: the next (depth, in_string, escape),
\* and whether the value closes here.
ScanStep(c, opener, depth, in_string, escape) ==
    IF in_string
    THEN IF escape
         THEN [depth |-> depth, in_string |-> TRUE, escape |-> FALSE, done |-> FALSE]
         ELSE IF c = Backslash
         THEN [depth |-> depth, in_string |-> TRUE, escape |-> TRUE, done |-> FALSE]
         ELSE IF c = Quote
         THEN [depth |-> depth, in_string |-> FALSE, escape |-> FALSE, done |-> FALSE]
         ELSE [depth |-> depth, in_string |-> TRUE, escape |-> FALSE, done |-> FALSE]
    ELSE IF c = Quote
         THEN [depth |-> depth, in_string |-> TRUE, escape |-> escape, done |-> FALSE]
    ELSE IF c = opener
         THEN [depth |-> depth + 1, in_string |-> FALSE, escape |-> escape, done |-> FALSE]
    ELSE IF c = Closer(opener)
         THEN [depth |-> depth - 1, in_string |-> FALSE, escape |-> escape,
               done |-> (depth - 1 = 0)]
    ELSE [depth |-> depth, in_string |-> FALSE, escape |-> escape, done |-> FALSE]

\* for (; i < buffer.size(); ++i) { ... }: the index of the closer that brings the
\* depth back to zero, or 0 when the buffer ends first.
RECURSIVE ScanValue(_, _, _, _, _, _)
ScanValue(buf, i, opener, depth, in_string, escape) ==
    IF i > Len(buf) THEN 0
    ELSE LET s == ScanStep(buf[i], opener, depth, in_string, escape)
         IN  IF s.done THEN i
             ELSE ScanValue(buf, i + 1, opener, s.depth, s.in_string, s.escape)

\* ExtractLoop without "i = 0": after the erase the scan goes on from the old index.
RECURSIVE ExtractLoop_NoRestart(_, _, _)
ExtractLoop_NoRestart(buf, i, out) ==
    IF i > Len(buf) THEN [out |-> out, buffer |-> buf]
    ELSE LET start == NextStart(buf, i)
         IN  IF start > Len(buf) THEN [out |-> out, buffer |-> buf]
             ELSE LET end == ScanValue(buf, start, buf[start], 0, FALSE, FALSE)
                  IN  IF end = 0 THEN [out |-> out, buffer |-> buf]
                      ELSE ExtractLoop_NoRestart(SubSeq(buf, end + 1, Len(buf)), end,
                                                 Append(out, SubSeq(buf, start, end)))

\* ExtractLoop that returns as soon as it has found one value.
ExtractLoop_FirstOnly(buf, i, out) ==
    IF i > Len(buf) THEN [out |-> out, buffer |-> buf]
    ELSE LET start == NextStart(buf, i)
         IN  IF start > Len(buf) THEN [out |-> out, buffer |-> buf]
             ELSE LET end == ScanValue(buf, start, buf[start], 0, FALSE, FALSE)
                  IN  IF end = 0 THEN [out |-> out, buffer |-> buf]
                      ELSE [out |-> Append(out, SubSeq(buf, start, end)),
                            buffer |-> SubSeq(buf, end + 1, Len(buf))]

\* ExtractLoop that erases the bytes before the opener as soon as it has skipped them.
RECURSIVE ExtractLoop_DropsNoise(_, _, _)
ExtractLoop_DropsNoise(buf, i, out) ==
    IF i > Len(buf) THEN [out |-> out, buffer |-> buf]
    ELSE LET start == NextStart(buf, i)
         IN  IF start > Len(buf) THEN [out |-> out, buffer |-> <<>>]
             ELSE LET end == ScanValue(buf, start, buf[start], 0, FALSE, FALSE)
                  IN  IF end = 0 THEN [out |-> out, buffer |-> SubSeq(buf, start, Len(buf))]
                      ELSE ExtractLoop_DropsNoise(SubSeq(buf, end + 1, Len(buf)), 1,
                                                  Append(out, SubSeq(buf, start, end)))

\* The outer while loop, entered with scan index i (1-based) and the values found so
\* far; the result is the returned vector and the buffer as the call leaves it.
RECURSIVE ExtractLoop(_, _, _)
ExtractLoop(buf, i, out) ==
    IF i > Len(buf) THEN [out |-> out, buffer |-> buf]
    ELSE LET start == NextStart(buf, i)
         IN  IF start > Len(buf) THEN [out |-> out, buffer |-> buf]
             ELSE LET end == ScanValue(buf, start, buf[start], 0, FALSE, FALSE)
                  IN  IF end = 0 THEN [out |-> out, buffer |-> buf]
                      ELSE ExtractLoop(SubSeq(buf, end + 1, Len(buf)), 1,
                                       Append(out, SubSeq(buf, start, end)))

extract_complete_json_values(buf) == ExtractLoop(buf, 1, <<>>)

(***************************************************************************)
(* nlohmann::json values. An object is a function from keys (texts) to     *)
(* values, an array a sequence of values.                                  *)
(***************************************************************************)
JNull == [t |-> "null"]
JBool(b) == [t |-> "bool", b |-> b]
JNum(n) == [t |-> "num", n |-> n]
JStr(s) == [t |-> "str", s |-> s]
JArr(a) == [t |-> "arr", a |-> a]
JObj(o) == [t |-> "obj", o |-> o]

\* json::object()
EmptyObject == JObj(<<>>)

is_object(j) == j.t = "obj"
is_array(j) == j.t = "arr"
is_string(j) == j.t = "str"

\* basic_json::contains(key): false on anything but an object.
contains(j, key) == is_object(j) /\ key \in DOMAIN j.o

\* The field names the engine looks for.
K_choices == <<"c", "h", "o", "i", "c", "e", "s">>
K_message == <<"m", "e", "s", "s", "a", "g", "e">>
K_delta == <<"d", "e", "l", "t", "a">>
K_tool_calls == <<"t", "o", "o", "l", "_", "c", "a", "l", "l", "s">>
K_function_call == <<"f", "u", "n", "c", "t", "i", "o", "n", "_", "c", "a", "l", "l">>
K_function == <<"f", "u", "n", "c", "t", "i", "o", "n">>
K_name == <<"n", "a", "m", "e">>
K_arguments == <<"a", "r", "g", "u", "m", "e", "n", "t", "s">>

(***************************************************************************)
(* json::parse, for the JSON texts the model draws: objects, arrays,       *)
(* strings with the escapes \" and \\, unsigned integers, true, false,     *)
(* null, blanks between tokens. A result is [ok, v, i]: whether a value    *)
(* was read, the value, and the index after it.                            *)
(***************************************************************************)
Digits == <<"0", "1", "2", "3", "4", "5", "6", "7", "8", "9">>
IsDigit(c) == \E d \in 1..10 : Digits[d] = c
DigitVal(c) == (CHOOSE d \in 1..10 : Digits[d] = c) - 1

ParseFail == [ok |-> FALSE, v |-> JNull, i |-> 0]

RECURSIVE SkipWs(_, _)
SkipWs(t, i) == IF i <= Len(t) /\ t[i] = " " THEN SkipWs(t, i + 1) ELSE i

\* The characters of a string literal whose opening quote is at i - 1.
RECURSIVE ParseString(_, _, _)
ParseString(t, i, acc) ==
    IF i > Len(t) THEN ParseFail
    ELSE IF t[i] = Quote THEN [ok |-> TRUE, v |-> JStr(acc), i |-> i + 1]
    ELSE IF t[i] = Backslash
         THEN IF i + 1 <= Len(t) /\ t[i + 1] \in {Quote, Backslash}
              THEN ParseString(t, i + 2, Append(acc, t[i + 1]))
              ELSE ParseFail
    ELSE ParseString(t, i + 1, Append(acc, t[i]))

RECURSIVE ParseNumber(_, _, _)
ParseNumber(t, i, acc) ==
    IF i <= Len(t) /\ IsDigit(t[i])
    THEN ParseNumber(t, i + 1, 10 * acc + DigitVal(t[i]))
    ELSE [ok |-> TRUE, v |-> JNum(acc), i |-> i]

ParseLiteral(t, i, word, v) ==
    IF SubSeq(t, i, i + Len(word) - 1) = word /\ i + Len(word) - 1 <= Len(t)
    THEN [ok |-> TRUE, v |-> v, i |-> i + Len(word)]
    ELSE ParseFail

RECURSIVE ParseValue(_, _)
RECURSIVE ParseMembers(_, _, _)
RECURSIVE ParseElements(_, _, _)

\* "key" : value , ... } with i at the first key's position; o holds the members read.
ParseMembers(t, i, o) ==
    LET k0 == SkipWs(t, i)
    IN  IF k0 > Len(t) \/ t[k0] # Quote THEN ParseFail
        ELSE LET k == ParseString(t, k0 + 1, <<>>)
             IN  IF ~k.ok THEN ParseFail
                 ELSE LET c == SkipWs(t, k.i)
                      IN  IF c > Len(t) \/ t[c] # ":" THEN ParseFail
                          ELSE LET v == ParseValue(t, c + 1)
                               IN  IF ~v.ok THEN ParseFail
                                   ELSE LET e == SkipWs(t, v.i)
                                            o2 == [x \in DOMAIN o \cup {k.v.s} |->
                                                      IF x = k.v.s THEN v.v ELSE o[x]]
                                        IN  IF e > Len(t) THEN ParseFail
                                            ELSE IF t[e] = RBrace
                                            THEN [ok |-> TRUE, v |-> JObj(o2), i |-> e + 1]
                                            ELSE IF t[e] = ","
                                            THEN ParseMembers(t, e + 1, o2)
                                            ELSE ParseFail

\* value , ... ] with i at the first element's position; a holds the elements read.
ParseElements(t, i, a) ==
    LET v == ParseValue(t, i)
    IN  IF ~v.ok THEN ParseFail
        ELSE LET e == SkipWs(t, v.i)
             IN  IF e > Len(t) THEN ParseFail
                 ELSE IF t[e] = RBrack
                 THEN [ok |-> TRUE, v |-> JArr(Append(a, v.v)), i |-> e + 1]
                 ELSE IF t[e] = ","
                 THEN ParseElements(t, e + 1, Append(a, v.v))
                 ELSE ParseFail

ParseValue(t, i) ==
    LET s == SkipWs(t, i)
    IN  IF s > Len(t) THEN ParseFail
        ELSE IF t[s] = LBrace
             THEN LET n == SkipWs(t, s + 1)
                  IN  IF n <= Len(t) /\ t[n] = RBrace
                      THEN [ok |-> TRUE, v |-> EmptyObject, i |-> n + 1]
                      ELSE ParseMembers(t, s + 1, <<>>)
        ELSE IF t[s] = LBrack
             THEN LET n == SkipWs(t, s + 1)
                  IN  IF n <= Len(t) /\ t[n] = RBrack
                      THEN [ok |-> TRUE, v |-> JArr(<<>>), i |-> n + 1]
                      ELSE ParseElements(t, s + 1, <<>>)
        ELSE IF t[s] = Quote THEN ParseString(t, s + 1, <<>>)
        ELSE IF IsDigit(t[s])
             THEN IF t[s] = "0" /\ s + 1 <= Len(t) /\ IsDigit(t[s + 1])
                  THEN ParseFail
                  ELSE ParseNumber(t, s, 0)
        ELSE IF t[s] = "t" THEN ParseLiteral(t, s, <<"t", "r", "u", "e">>, JBool(TRUE))
        ELSE IF t[s] = "f" THEN ParseLiteral(t, s, <<"f", "a", "l", "s", "e">>, JBool(FALSE))
        ELSE IF t[s] = "n" THEN ParseLiteral(t, s, <<"n", "u", "l", "l">>, JNull)
        ELSE ParseFail

\* json::parse(text): [ok |-> FALSE] stands for the parse_error it throws.
json_parse(t) ==
    LET r == ParseValue(t, 1)
    IN  IF r.ok /\ SkipWs(t, r.i) > Len(t)
        THEN [ok |-> TRUE, v |-> r.v]
        ELSE [ok |-> FALSE, v |-> JNull]

(***************************************************************************)
(* Call discovery                                                          *)
(***************************************************************************)
\* basic_json::value(key, ""): the text at key, "" when the key is missing; it throws
\* json::type_error when the value is no object (306) or the field no string (302).
value_string(j, key) ==
    IF ~is_object(j) THEN [thrown |-> TRUE, s |-> <<>>]
    ELSE IF key \notin DOMAIN j.o THEN [thrown |-> FALSE, s |-> <<>>]
    ELSE IF is_string(j.o[key]) THEN [thrown |-> FALSE, s |-> j.o[key].s]
    ELSE [thrown |-> TRUE, s |-> <<>>]

\* parse_function_arguments that hands a textual "arguments" on as it is.
parse_function_arguments_Unparsed(func) ==
    IF ~contains(func, K_arguments) THEN EmptyObject
    ELSE LET a == func.o[K_arguments]
         IN  IF is_string(a) \/ is_object(a) \/ is_array(a) THEN a ELSE EmptyObject

\* Lines 51-60; json::parse throwing is caught by catch (...).
parse_function_arguments(func) ==
    IF ~contains(func, K_arguments) THEN EmptyObject
    ELSE LET a == func.o[K_arguments]
         IN  IF is_string(a)
             THEN LET p == json_parse(a.s)
                  IN  IF p.ok THEN p.v ELSE EmptyObject
             ELSE IF is_object(a) \/ is_array(a) THEN a
             ELSE EmptyObject

\* if (!name.empty()) out.emplace_back(name, parse_function_arguments(func));
EmplaceNamed(out, name, func) ==
    IF name # <<>>
    THEN Append(out, [name |-> name, args |-> parse_function_arguments(func)])
    ELSE out

\* for (const auto& tc : node["tool_calls"]) from element i on.
\* [thrown |-> TRUE] stands for the json::type_error leaving the function.
RECURSIVE CollectToolCalls(_, _, _)
CollectToolCalls(tcs, i, out) ==
    IF i > Len(tcs) THEN [thrown |-> FALSE, out |-> out]
    ELSE LET tc == tcs[i]
             func == IF contains(tc, K_function) THEN tc.o[K_function] ELSE tc
             name == value_string(func, K_name)
         IN  IF name.thrown THEN [thrown |-> TRUE, out |-> out]
             ELSE CollectToolCalls(tcs, i + 1, EmplaceNamed(out, name.s, func))

\* if (node.contains("function_call") && node["function_call"].is_object()) ...
CollectFunctionCall(node, out) ==
    IF contains(node, K_function_call) /\ is_object(node.o[K_function_call])
    THEN LET fc == node.o[K_function_call]
             name == value_string(fc, K_name)
         IN  IF name.thrown THEN [thrown |-> TRUE, out |-> out]
             ELSE [thrown |-> FALSE, out |-> EmplaceNamed(out, name.s, fc)]
    ELSE [thrown |-> FALSE, out |-> out]

\* collect_tool_calls_from_node with its two blocks in the other order.
collect_tool_calls_from_node_SingularFirst(node, out) ==
    LET single == CollectFunctionCall(node, out)
    IN  IF single.thrown THEN single
        ELSE IF contains(node, K_tool_calls) /\ is_array(node.o[K_tool_calls])
             THEN CollectToolCalls(node.o[K_tool_calls].a, 1, single.out)
             ELSE single

\* Lines 63-85: the "tool_calls" block, then the "function_call" block.
collect_tool_calls_from_node(node, out) ==
    LET listed == IF contains(node, K_tool_calls) /\ is_array(node.o[K_tool_calls])
                  THEN CollectToolCalls(node.o[K_tool_calls].a, 1, out)
                  ELSE [thrown |-> FALSE, out |-> out]
    IN  IF listed.thrown THEN listed
        ELSE CollectFunctionCall(node, listed.out)

pick_message_like(choice_or_msg) ==
    IF is_object(choice_or_msg) /\ contains(choice_or_msg, K_message)
    THEN choice_or_msg.o[K_message]
    ELSE IF is_object(choice_or_msg) /\ contains(choice_or_msg, K_delta)
    THEN choice_or_msg.o[K_delta]
    ELSE choice_or_msg

\* json entries = api_response; if (...) entries = api_response["choices"];
\* else if (!api_response.is_array()) entries = json::array({ api_response });
NormalizeEntries(response) ==
    IF is_object(response) /\ contains(response, K_choices) THEN response.o[K_choices]
    ELSE IF ~is_array(response) THEN JArr(<<response>>)
    ELSE response

\* What for (const auto& entry : entries) visits: the elements of an array, nothing
\* for null, a primitive itself once. (An object would yield its member values in
\* key order; no response drawn here holds an object under "choices".)
IterationOf(entries) ==
    IF is_array(entries) THEN entries.a
    ELSE IF entries = JNull THEN <<>>
    ELSE <<entries>>

\* for (const auto& entry : entries) { ... collect_tool_calls_from_node(node, calls); }
RECURSIVE DiscoverLoop(_, _, _)
DiscoverLoop(entries, i, found) ==
    IF i > Len(entries) THEN [thrown |-> FALSE, out |-> found]
    ELSE LET r == collect_tool_calls_from_node(pick_message_like(entries[i]), found)
         IN  IF r.thrown THEN r ELSE DiscoverLoop(entries, i + 1, r.out)

DiscoverCalls(response) == DiscoverLoop(IterationOf(NormalizeEntries(response)), 1, <<>>)

(***************************************************************************)
(* Handlers and ToolRegistry::invoke                                       *)
(***************************************************************************)
ToolNotFound == <<"T", "o", "o", "l", " ", "n", "o", "t", " ", "f", "o", "u", "n", "d", ":", " ">>
UnknownError == <<"U", "n", "k", "n", "o", "w", "n", " ", "e", "r", "r", "o", "r", " ", "i", "n", "v", "o", "k", "i", "n", "g", " ", "t", "o", "o", "l">>
FailMsg == <<"f", "a", "i", "l">>
KeyNotFoundMsg == <<"k", "e", "y", " ", "'", "m", "s", "g", "'", " ", "n", "o", "t", " ", "f", "o", "u", "n", "d">>
TypeErrorMsg == <<"c", "a", "n", "n", "o", "t", " ", "u", "s", "e", " ", "a", "t", "(", ")">>
K_msg == <<"m", "s", "g">>
K_echoed == <<"e", "c", "h", "o", "e", "d">>
N_echo == <<"e", "c", "h", "o">>
N_bad == <<"b", "a", "d">>
N_mute == <<"m", "u", "t", "e">>
N_odd == <<"o", "d", "d">>
N_ghost == <<"g", "h", "o", "s", "t">>
N_hang == <<"h", "a", "n", "g">>

\* The outcome of a call that may throw: thrown is "none", "std" (a std::exception,
\* what() being `what`) or "other" (anything else).
Returned(v) == [thrown |-> "none", what |-> <<>>, v |-> v]
ThrewStd(what) == [thrown |-> "std", what |-> what, v |-> JNull]
ThrewOther == [thrown |-> "other", what |-> <<>>, v |-> JNull]

\* [](const json& args){ return json{{"echoed", args.at("msg")}}; }
\* at() throws json::type_error on a non-object, json::out_of_range on a missing key.
EchoHandler(args) ==
    IF ~is_object(args) THEN ThrewStd(TypeErrorMsg)
    ELSE IF K_msg \notin DOMAIN args.o THEN ThrewStd(KeyNotFoundMsg)
    ELSE Returned(JObj(K_echoed :> args.o[K_msg]))

\* [](const json& args) -> json { throw std::runtime_error("fail"); }
BadHandler(args) == ThrewStd(FailMsg)

\* A handler is any std::function<json(const json&)>: one that throws a
\* std::exception whose what() is empty, and one that throws a non-exception value.
MuteHandler(args) == ThrewStd(<<>>)
OddHandler(args) == ThrewOther

\* What a call of handler h ends in. A "hang" handler never ends a call, so it has
\* no case here: the steps that take an outcome are not enabled for it.
CallHandler(h, args) ==
    CASE h = "echo" -> EchoHandler(args)
      [] h = "bad" -> BadHandler(args)
      [] h = "mute" -> MuteHandler(args)
      [] h = "odd" -> OddHandler(args)

\* json invoke(name, args) const
invoke(name, args) ==
    IF name \notin DOMAIN tools_ THEN ThrewStd(ToolNotFound \o name)
    ELSE CallHandler(tools_[name], args)

\* The handler registered under name never returns from a call.
Hangs(name) == name \in DOMAIN tools_ /\ tools_[name] = "hang"

\* ExecutionResult r; (result is a null json, error an empty string)
DefaultResult == [tool_name |-> <<>>, arguments |-> JNull, result |-> JNull, error |-> <<>>]

\* r.tool_name = name; r.arguments = args;
\* try { r.result = invoke(name, args); }
\* catch (const std::exception& e) { r.error = e.what(); }
\* catch (...) { r.error = "Unknown error invoking tool"; }
ExecuteCall(name, args) ==
    LET inv == invoke(name, args)
    IN  [tool_name |-> name, arguments |-> args,
         result |-> IF inv.thrown = "none" THEN inv.v ELSE DefaultResult.result,
         error |-> IF inv.thrown = "std" THEN inv.what
                   ELSE IF inv.thrown = "other" THEN UnknownError
                   ELSE DefaultResult.error]

\* What the invocation itself did, kept beside the outcome for the properties.
RunRecord(name, args) ==
    LET inv == invoke(name, args)
    IN  [n |-> 1, threw |-> inv.thrown # "none", ret |-> inv.v]

NotRun == [n |-> 0, threw |-> FALSE, ret |-> JNull]

(***************************************************************************)
(* process_remote_response_and_execute                                     *)
(***************************************************************************)
\* Lines 155-171: normalise, discover, reserve. A type_error thrown while the calls
\* are collected leaves the function.
Discover ==
    /\ pc = "idle"
    /\ LET d == DiscoverCalls(api_response)
       IN  IF d.thrown
           THEN /\ pc' = "raised"
                /\ UNCHANGED <<calls, runs>>
           ELSE /\ pc' = IF concurrent THEN "concurrent" ELSE "sequential"
                /\ calls' = d.out
                /\ runs' = [i \in 1..Len(d.out) |-> NotRun]
    /\ UNCHANGED <<api_response, concurrent, tools_, results, futs, overtaken, current, evars, rvars, svars>>

\* SeqInvoke with the try around the whole loop: the first failure ends the dispatch.
SeqInvoke_AbortOnError ==
    /\ pc = "sequential"
    /\ Len(results) < Len(calls)
    /\ current = Len(results) + 1
    /\ ~Hangs(calls[current].name)
    /\ current' = 0
    /\ LET i == Len(results) + 1
           r == ExecuteCall(calls[i].name, calls[i].args)
       IN  /\ runs' = [runs EXCEPT ![i] = RunRecord(calls[i].name, calls[i].args)]
           /\ IF r.error # <<>>
              THEN pc' = "done" /\ results' = results
              ELSE pc' = pc /\ results' = Append(results, r)
    /\ UNCHANGED <<api_response, concurrent, tools_, calls, futs, overtaken, evars, rvars, svars>>

\* The sequential loop reaches its next call and enters invoke for it, lines 174-180.
SeqBegin ==
    /\ pc = "sequential"
    /\ Len(results) < Len(calls)
    /\ current = 0
    /\ current' = Len(results) + 1
    /\ UNCHANGED <<api_response, concurrent, tools_, pc, calls, results, futs, runs, overtaken, evars, rvars, svars>>

\* invoke returns or throws, the outcome is filled in and pushed, lines 180-185; this
\* never happens when the handler does not return.
SeqInvoke ==
    /\ pc = "sequential"
    /\ Len(results) < Len(calls)
    /\ current = Len(results) + 1
    /\ ~Hangs(calls[current].name)
    /\ current' = 0
    /\ LET i == Len(results) + 1
       IN  /\ results' = Append(results, ExecuteCall(calls[i].name, calls[i].args))
           /\ runs' = [runs EXCEPT ![i] = RunRecord(calls[i].name, calls[i].args)]
    /\ UNCHANGED <<api_response, concurrent, tools_, pc, calls, futs, overtaken, evars, rvars, svars>>

\* return results; (line 187)
SeqReturn ==
    /\ pc = "sequential"
    /\ Len(results) = Len(calls)
    /\ pc' = "done"
    /\ UNCHANGED <<api_response, concurrent, tools_, calls, results, futs, runs, overtaken, current, evars, rvars, svars>>

\* Launch that waits for the task launched before to finish (a deferred or serial
\* launch policy).
Launch_AfterPrevious ==
    /\ pc = "concurrent"
    /\ Len(futs) < Len(calls)
    /\ futs # <<>> => futs[Len(futs)].state # "running"
    /\ futs' = Append(futs, [state |-> "running", r |-> DefaultResult])
    /\ UNCHANGED <<api_response, concurrent, tools_, pc, calls, results, runs, overtaken, current, evars, rvars, svars>>

\* futs.emplace_back(std::async(std::launch::async, ...)): one iteration of the
\* launch loop, lines 193-207. The new thread has not run yet.
Launch ==
    /\ pc = "concurrent"
    /\ Len(futs) < Len(calls)
    /\ futs' = Append(futs, [state |-> "running", r |-> DefaultResult])
    /\ UNCHANGED <<api_response, concurrent, tools_, pc, calls, results, runs, overtaken, current, evars, rvars, svars>>

\* The lambda of launched call i runs on its own thread, lines 195-205, and makes its
\* future ready; it never does when the handler does not return.
TaskRun(i) ==
    /\ i \in 1..Len(futs)
    /\ futs[i].state = "running"
    /\ ~Hangs(calls[i].name)
    /\ futs' = [futs EXCEPT ![i] = [state |-> "ready",
                                    r |-> ExecuteCall(calls[i].name, calls[i].args)]]
    /\ runs' = [runs EXCEPT ![i] = RunRecord(calls[i].name, calls[i].args)]
    /\ overtaken' = (overtaken \/ \E j \in 1..(i - 1) : futs[j].state = "running")
    /\ UNCHANGED <<api_response, concurrent, tools_, pc, calls, results, current, evars, rvars, svars>>

\* NextToJoin that takes a future that is ready, whatever its place in futs.
NextToJoin_AnyReady ==
    IF \E i \in 1..Len(futs) : futs[i].state = "ready"
    THEN CHOOSE i \in 1..Len(futs) :
            /\ futs[i].state = "ready"
            /\ \A j \in 1..Len(futs) : futs[j].state = "ready" => j <= i
    ELSE Len(results) + 1

\* for (auto& f : futs): the future the join loop waits on next.
NextToJoin == Len(results) + 1

\* Join that takes each outcome as soon as its call has been launched and has finished,
\* with calls still left to launch.
Join_Interleaved ==
    /\ pc = "concurrent"
    /\ Len(results) < Len(futs)
    /\ futs[NextToJoin].state = "ready"
    /\ results' = Append(results, futs[NextToJoin].r)
    /\ futs' = [futs EXCEPT ![NextToJoin].state = "joined"]
    /\ UNCHANGED <<api_response, concurrent, tools_, pc, calls, runs, overtaken, current, evars, rvars, svars>>

\* results.push_back(f.get()): one iteration of the join loop, lines 210-212; get()
\* blocks until the future is ready.
Join ==
    /\ pc = "concurrent"
    /\ Len(futs) = Len(calls)
    /\ Len(results) < Len(calls)
    /\ futs[NextToJoin].state = "ready"
    /\ results' = Append(results, futs[NextToJoin].r)
    /\ futs' = [futs EXCEPT ![NextToJoin].state = "joined"]
    /\ UNCHANGED <<api_response, concurrent, tools_, pc, calls, runs, overtaken, current, evars, rvars, svars>>

\* ConcReturn that does not wait for the outcomes: it leaves once every call has
\* been launched.
ConcReturn_Early ==
    /\ pc = "concurrent"
    /\ Len(futs) = Len(calls)
    /\ pc' = "done"
    /\ UNCHANGED <<api_response, concurrent, tools_, calls, results, futs, runs, overtaken, current, evars, rvars, svars>>

\* return results; (line 213)
ConcReturn ==
    /\ pc = "concurrent"
    /\ Len(futs) = Len(calls)
    /\ Len(results) = Len(calls)
    /\ pc' = "done"
    /\ UNCHANGED <<api_response, concurrent, tools_, calls, results, futs, runs, overtaken, current, evars, rvars, svars>>

NextDispatch ==
    \/ Discover
    \/ SeqBegin
    \/ SeqInvoke
    \/ SeqReturn
    \/ Launch
    \/ \E i \in 1..Len(futs) : TaskRun(i)
    \/ Join
    \/ ConcReturn

(***************************************************************************)
(* Registries and responses explored                                       *)
(***************************************************************************)
\* register_tool for five handlers; "ghost" is never registered.
Registry ==
    (N_echo :> "echo") @@ (N_bad :> "bad") @@ (N_mute :> "mute") @@ (N_odd :> "odd")
    @@ (N_hang :> "hang")

\* The schema each of them is registered with: {"name": name}.
SchemaOf(name) == JObj(K_name :> JStr(name))

\* No direct call has been made.
NoDirect == [api |-> "none"]

\* schemas_ as register_tool left it beside tools_.
Furnished ==
    /\ schemas_ = [n \in DOMAIN tools_ |-> SchemaOf(n)]
    /\ latest = [n \in DOMAIN tools_ |-> [handler |-> tools_[n], schema |-> SchemaOf(n)]]
    /\ direct = NoDirect

\* No stream is being processed.
IdleStream ==
    /\ spc = "off"
    /\ blobs = <<>>
    /\ batch = <<>>
    /\ delivered = <<>>
    /\ examined = 0
    /\ sink = {}

\* Marks a field left out of an object under construction.
Absent == [t |-> "absent"]

\* The object with the given <<key, value>> members, less the absent ones.
MkObj(members) ==
    LET present == {m \in members : m[2] # Absent}
    IN  JObj([k \in {m[1] : m \in present} |-> (CHOOSE m \in present : m[1] = k)[2]])

RECURSIVE SeqsUpTo(_, _)
SeqsUpTo(S, n) ==
    IF n = 0 THEN {<<>>}
    ELSE LET shorter == SeqsUpTo(S, n - 1)
         IN  shorter \cup {Append(q, x) : q \in {r \in shorter : Len(r) = n - 1}, x \in S}

T_msg_hi == <<"{", "\"", "m", "s", "g", "\"", ":", "\"", "h", "i", "\"", "}">>
T_empty_obj == <<"{", "}">>
T_truncated == <<"{", "\"", "m", "s", "g", "\"", ":">>
T_seven == <<"7">>

\* {"name": ..., "arguments": ...}
Fn(name, arguments) == MkObj({<<K_name, name>>, <<K_arguments, arguments>>})
\* {"function": f}
Wrapped(f) == MkObj({<<K_function, f>>})

\* The shape of the responses in tests.cpp:
\* {"choices":[{"message":{"tool_calls":[{"function":{...}}, ...]}}]}
TestShape(fs) ==
    MkObj({<<K_choices,
             JArr(<<MkObj({<<K_message,
                             MkObj({<<K_tool_calls,
                                     JArr([i \in 1..Len(fs) |-> Wrapped(fs[i])])>>})>>})>>)>>})

DispatchFuncs ==
    { Fn(JStr(N_echo), JStr(T_msg_hi)),
      Fn(JStr(N_echo), JStr(T_empty_obj)),
      Fn(JStr(N_bad), JStr(T_empty_obj)),
      Fn(JStr(N_mute), JStr(T_empty_obj)),
      Fn(JStr(N_odd), JStr(T_empty_obj)),
      Fn(JStr(N_ghost), JStr(T_empty_obj)) }

DispatchResponses == {TestShape(fs) : fs \in SeqsUpTo(DispatchFuncs, MaxCalls)}

\* Function objects that differ in their "arguments" field, and in their "name" field.
ArgFields ==
    { Absent, JStr(T_msg_hi), JStr(T_truncated), JStr(T_seven),
      JObj(K_msg :> JStr(<<"y", "o">>)), JArr(<<JNum(1)>>), JNum(7) }
NameFields == {Absent, JStr(<<>>), JStr(N_echo), JStr(N_bad), JStr(N_ghost), JNum(5)}

ArgFuncs == {Fn(JStr(N_echo), a) : a \in ArgFields}
NameFuncs == {Fn(n, JStr(T_msg_hi)) : n \in NameFields}

\* Elements of a "tool_calls" list: wrapped and bare function objects, an element with
\* both a "function" and a "name" of its own, a number, a "function" that is no object.
OddElems ==
    { JNum(5),
      MkObj({<<K_function, JStr(<<"x">>)>>}),
      MkObj({<<K_function, Fn(JStr(N_bad), Absent)>>, <<K_name, JStr(N_ghost)>>}) }
AllElems ==
    {Wrapped(f) : f \in ArgFuncs \cup NameFuncs} \cup ArgFuncs \cup NameFuncs \cup OddElems
ListElems ==
    { Wrapped(Fn(JStr(N_echo), JStr(T_msg_hi))),
      Fn(JStr(N_bad), JStr(T_truncated)),
      Fn(JStr(<<>>), JStr(T_msg_hi)),
      JNum(5) }

ToolCallsFields ==
    {Absent, JStr(<<"x">>)}
    \cup {JArr(<<e>>) : e \in AllElems}
    \cup {JArr(l) : l \in SeqsUpTo(ListElems, MaxList)}

FunctionCallFields ==
    { Absent, JStr(<<"x">>),
      Fn(JStr(N_ghost), Absent),
      Fn(JStr(N_echo), JObj(K_msg :> JStr(<<"y", "o">>))),
      Fn(JStr(<<>>), JStr(T_msg_hi)),
      Fn(JNum(5), JStr(T_msg_hi)) }

Nodes ==
    {MkObj({<<K_tool_calls, tc>>, <<K_function_call, fc>>}) :
        tc \in ToolCallsFields, fc \in FunctionCallFields}

OtherNode == MkObj({<<K_function_call, Fn(JStr(N_odd), JStr(T_empty_obj))>>})

\* An entry holds the node itself, or under "message", or under "delta", or under
\* "message" beside another node under "delta".
EntriesOf(node) ==
    { node,
      MkObj({<<K_message, node>>}),
      MkObj({<<K_delta, node>>}),
      MkObj({<<K_message, node>>, <<K_delta, OtherNode>>}) }

OtherEntry == MkObj({<<K_delta, OtherNode>>})

\* A response is the entry alone, a "choices" object or a bare array of one or two entries.
ResponsesOf(entry) ==
    { entry,
      MkObj({<<K_choices, JArr(<<entry>>)>>}),
      JArr(<<entry>>),
      MkObj({<<K_choices, JArr(<<entry, OtherEntry>>)>>}),
      JArr(<<OtherEntry, entry>>) }

PlainResponses ==
    { JNull, JNum(5), JStr(<<"x">>), JArr(<<>>),
      MkObj({<<K_choices, JNull>>}), MkObj({<<K_choices, JNum(5)>>}),
      MkObj({<<K_choices, JArr(<<>>)>>}) }

DiscoverResponses ==
    PlainResponses \cup UNION {UNION {ResponsesOf(e) : e \in EntriesOf(n)} : n \in Nodes}

\* No extractor call has been made.
NoCall == [kind |-> "none", fresh |-> FALSE, carried |-> FALSE, found |-> FALSE]

\* No stream is being read.
IdleExtract ==
    /\ stream = <<>>
    /\ pos = 0
    /\ buffer = <<>>
    /\ emitted = <<>>
    /\ last = NoCall

\* The state in which process_remote_response_and_execute(api_response, concurrent)
\* is entered.
Entered(responses) ==
    /\ api_response \in responses
    /\ concurrent \in BOOLEAN
    /\ tools_ = Registry
    /\ pc = "idle"
    /\ calls = <<>>
    /\ results = <<>>
    /\ futs = <<>>
    /\ runs = <<>>
    /\ overtaken = FALSE
    /\ current = 0
    /\ Furnished
    /\ IdleStream

InitDispatch == Entered(DispatchResponses) /\ IdleExtract
InitDiscover == Entered(DiscoverResponses) /\ IdleExtract

SpecDispatch == InitDispatch /\ [][NextDispatch]_vars
SpecDiscover == InitDiscover /\ [][NextDispatch]_vars

(***************************************************************************)
(* Properties of dispatch                                                  *)
(***************************************************************************)
\* C1: when the function returns, there is exactly one outcome per discovered call, and
\* outcome i carries the name and the arguments of call i, in either mode and whatever
\* the order in which the handlers finished.
C1_OrderPreserved ==
    pc = "done" =>
        /\ Len(results) = Len(calls)
        /\ \A i \in 1..Len(calls) :
              /\ results[i].tool_name = calls[i].name
              /\ results[i].arguments = calls[i].args

\* A concurrent dispatch returned after a later call had finished before an earlier one,
\* the two calls bearing different names.
C1_Witness ==
    /\ pc = "done" /\ concurrent /\ overtaken
    /\ \E i, j \in 1..Len(results) : results[i].tool_name # results[j].tool_name

\* The result a call yields when it is the only call made.
ResultAlone(call) ==
    LET inv == invoke(call.name, call.args)
    IN  IF inv.thrown = "none" THEN inv.v ELSE JNull

\* C2: when the function returns, every call has been invoked exactly once and its
\* outcome holds the result the call yields alone, whichever other calls of the
\* response failed or named no registered handler.
C2_FailuresIsolated ==
    pc = "done" =>
        \A i \in 1..Len(calls) :
            /\ runs[i].n = 1
            /\ i <= Len(results)
            /\ results[i].result = ResultAlone(calls[i])

\* A dispatch returned in which a call failed, an unregistered name was called, and a
\* call after them succeeded.
C2_Witness ==
    /\ pc = "done"
    /\ \E i, j, k \in 1..Len(results) :
          /\ i < k /\ j < k
          /\ runs[i].threw /\ calls[i].name \in DOMAIN tools_
          /\ calls[j].name \notin DOMAIN tools_
          /\ ~runs[k].threw /\ results[k].result # JNull

\* C3: in every outcome returned, a call whose lookup or handler failed has a non-empty
\* error and no result, and any other call has an empty error and the value its
\* handler returned.
C3_ErrorXorResult ==
    pc = "done" =>
        \A i \in 1..Len(results) :
            IF runs[i].threw
            THEN results[i].error # <<>> /\ results[i].result = JNull
            ELSE results[i].error = <<>> /\ results[i].result = runs[i].ret

\* C4: the function returns an outcome list for every response: no exception leaves it.
C4_NeverRaises == pc # "raised"

(***************************************************************************)
(* Properties of discovery                                                 *)
(***************************************************************************)
RECURSIVE Flatten(_)
Flatten(ss) == IF ss = <<>> THEN <<>> ELSE Head(ss) \o Flatten(Tail(ss))

\* The entries, the node of an entry and the call candidates of a node, as the
\* claim words them.
ClaimedEntries(v) ==
    IF v.t = "obj" /\ K_choices \in DOMAIN v.o
    THEN (IF v.o[K_choices].t = "arr" THEN v.o[K_choices].a ELSE <<>>)
    ELSE IF v.t = "arr" THEN v.a
    ELSE <<v>>

HasField(v, k) == v.t = "obj" /\ k \in DOMAIN v.o

ClaimedNode(e) ==
    IF HasField(e, K_message) THEN e.o[K_message]
    ELSE IF HasField(e, K_delta) THEN e.o[K_delta]
    ELSE e

ClaimedCandidates(node) ==
    (IF HasField(node, K_tool_calls) /\ node.o[K_tool_calls].t = "arr"
     THEN [i \in 1..Len(node.o[K_tool_calls].a) |->
              LET e == node.o[K_tool_calls].a[i]
              IN  IF HasField(e, K_function) THEN e.o[K_function] ELSE e]
     ELSE <<>>)
    \o (IF HasField(node, K_function_call) /\ node.o[K_function_call].t = "obj"
        THEN <<node.o[K_function_call]>>
        ELSE <<>>)

AllCandidates(v) ==
    LET es == ClaimedEntries(v)
    IN  Flatten([i \in 1..Len(es) |-> ClaimedCandidates(ClaimedNode(es[i]))])

\* The candidate has a name that is a non-empty text.
Named(c) == HasField(c, K_name) /\ c.o[K_name].t = "str" /\ c.o[K_name].s # <<>>

\* The candidate's name cannot be read as a text: the candidate is no object, or
\* its "name" is no string.
NameUnreadable(c) == c.t # "obj" \/ (K_name \in DOMAIN c.o /\ c.o[K_name].t # "str")

NamedCandidates(v) == SelectSeq(AllCandidates(v), Named)

Discovered == pc \in {"sequential", "concurrent", "done"}

\* C9: the calls discovered are the named candidates of the response in this order:
\* entry by entry ("choices" elements, else the elements of a top-level array, else
\* the value itself), in the node of each entry ("message", else "delta", else the
\* entry) the "tool_calls" elements in listed order, then the "function_call" object.
C9_DiscoveryOrder ==
    Discovered =>
        LET cs == NamedCandidates(api_response)
        IN  /\ Len(calls) = Len(cs)
            /\ \A i \in 1..Len(cs) :
                  /\ calls[i].name = cs[i].o[K_name].s
                  /\ calls[i].args = parse_function_arguments(cs[i])

\* Calls were discovered in two entries, and in one node under both conventions.
C9_Witness ==
    /\ Discovered
    /\ Len(ClaimedEntries(api_response)) = 2
    /\ \A i \in 1..2 : ClaimedCandidates(ClaimedNode(ClaimedEntries(api_response)[i])) # <<>>
    /\ \E i \in 1..2 :
          LET node == ClaimedNode(ClaimedEntries(api_response)[i])
          IN  /\ HasField(node, K_tool_calls) /\ HasField(node, K_function_call)
              /\ Len(SelectSeq(ClaimedCandidates(node), Named)) >= 3
    /\ Len(calls) >= 4

\* The arguments the claim gives a call made from function object f are a: where the
\* claim is silent (an "arguments" that is a number, a boolean or null) any a will do.
ArgumentsAsClaimed(f, a) ==
    IF K_arguments \notin DOMAIN f.o THEN a = EmptyObject
    ELSE LET field == f.o[K_arguments]
         IN  CASE field.t = "str" ->
                     IF json_parse(field.s).ok THEN a = json_parse(field.s).v
                     ELSE a = EmptyObject
               [] field.t \in {"obj", "arr"} -> a = field
               [] OTHER -> TRUE

MalformedArguments(f) ==
    /\ K_arguments \in DOMAIN f.o
    /\ f.o[K_arguments].t = "str"
    /\ ~json_parse(f.o[K_arguments].s).ok

\* C10: every named candidate becomes a call whose arguments are the parsed text, the
\* object or array itself, or an empty mapping when the text does not parse or the field
\* is missing; the call is dispatched with them; and an exception leaves the function
\* only over a name that cannot be read, never over an arguments text.
C10_ArgumentsExtracted ==
    LET cs == NamedCandidates(api_response)
    IN  /\ Discovered =>
              /\ Len(calls) = Len(cs)
              /\ \A i \in 1..Len(cs) : ArgumentsAsClaimed(cs[i], calls[i].args)
        /\ pc = "done" =>
              /\ Len(results) = Len(cs)
              /\ \A i \in 1..Len(cs) :
                    /\ runs[i].n = 1
                    /\ ArgumentsAsClaimed(cs[i], results[i].arguments)
        /\ pc = "raised" =>
              \E i \in 1..Len(AllCandidates(api_response)) :
                  NameUnreadable(AllCandidates(api_response)[i])

\* A call whose arguments text does not parse was dispatched with an empty mapping,
\* next to a call whose arguments text parsed.
C10_Witness ==
    /\ pc = "done"
    /\ \E i, j \in 1..Len(results) :
          LET cs == NamedCandidates(api_response)
          IN  /\ MalformedArguments(cs[i])
              /\ results[i].arguments = EmptyObject
              /\ K_arguments \in DOMAIN cs[j].o
              /\ cs[j].o[K_arguments].t = "str"
              /\ results[j].arguments # EmptyObject

\* C11: a candidate that lacks a non-empty name text is passed over in silence: whenever
\* the response holds such a candidate, no exception leaves the function, no call is
\* made of it, and the named candidates beside it are all discovered and, when the
\* function returns, dispatched.
C11_NamelessSkipped ==
    LET all == AllCandidates(api_response)
        cs == NamedCandidates(api_response)
    IN  (pc # "idle" /\ \E i \in 1..Len(all) : ~Named(all[i])) =>
            /\ Discovered
            /\ Len(calls) = Len(cs)
            /\ \A i \in 1..Len(cs) : calls[i].name = cs[i].o[K_name].s
            /\ pc = "done" => Len(results) = Len(cs)

(***************************************************************************)
(* The registry: register_tool, schemas, invoke, invoke_concurrent         *)
(***************************************************************************)
\* std::map::emplace: the pair is inserted only when the map has no such key yet.
emplace(map, key, value) == IF key \in DOMAIN map THEN map ELSE map @@ (key :> value)

\* tools_.emplace(name, std::move(handler)); schemas_.emplace(name, schema);
register_tool(name, handler, schema) ==
    /\ tools_' = emplace(tools_, name, handler)
    /\ schemas_' = emplace(schemas_, name, schema)
    /\ latest' = (name :> [handler |-> handler, schema |-> schema]) @@ latest
    /\ UNCHANGED <<api_response, concurrent, pc, calls, results, futs, runs, overtaken, current>>
    /\ UNCHANGED <<direct, evars, svars>>

\* The names in the order std::map keeps its keys.
NameOrder == <<N_bad, N_echo, N_ghost, N_hang, N_mute, N_odd>>

\* json schemas() const: the schemas in key order.
schemas ==
    LET names == SelectSeq(NameOrder, LAMBDA n : n \in DOMAIN schemas_)
    IN  JArr([i \in 1..Len(names) |-> schemas_[names[i]]])

\* reg.invoke(name, args) called by the user: the lookup comes first (header line 38),
\* the handler is entered only when it succeeds (line 40).
Invoke(name, args) ==
    /\ direct' = [api |-> "invoke", name |-> name, known |-> name \in DOMAIN tools_,
                  entered |-> IF name \in DOMAIN tools_ THEN 1 ELSE 0,
                  launched |-> 0,
                  out |-> invoke(name, args)]
    /\ UNCHANGED <<dvars, evars, schemas_, latest, svars>>

\* invoke_concurrent that starts the task first and looks the name up inside it.
invoke_concurrent_LaunchFirst(name, args) ==
    IF name \notin DOMAIN tools_
    THEN [out |-> ThrewStd(ToolNotFound \o name), launched |-> 1, entered |-> 0]
    ELSE [out |-> CallHandler(tools_[name], args), launched |-> 1, entered |-> 1]

\* Lines 7-12: find, throw when absent, else std::async and fut.get(), which hands on
\* what the handler returned or rethrows what it threw.
invoke_concurrent(name, args) ==
    IF name \notin DOMAIN tools_
    THEN [out |-> ThrewStd(ToolNotFound \o name), launched |-> 0, entered |-> 0]
    ELSE [out |-> CallHandler(tools_[name], args), launched |-> 1, entered |-> 1]

\* reg.invoke_concurrent(name, args) called by the user.
InvokeConcurrent(name, args) ==
    /\ LET r == invoke_concurrent(name, args)
       IN  direct' = [api |-> "invoke_concurrent", name |-> name,
                      known |-> name \in DOMAIN tools_,
                      entered |-> r.entered, launched |-> r.launched, out |-> r.out]
    /\ UNCHANGED <<dvars, evars, schemas_, latest, svars>>

\* What the user registers and calls: two names, a third never registered.
RegNames == {N_echo, N_bad}
RegHandlers == {"echo", "bad"}
RegSchemas == {SchemaOf(N_echo), SchemaOf(N_bad)}
DirectNames == {N_echo, N_bad, N_ghost}
DirectArgs == {EmptyObject, JObj(K_msg :> JStr(<<"h", "i">>))}

\* ToolRegistry() = default: both maps empty.
InitRegistry ==
    /\ api_response = JNull
    /\ concurrent = FALSE
    /\ tools_ = <<>>
    /\ pc = "off"
    /\ calls = <<>>
    /\ results = <<>>
    /\ futs = <<>>
    /\ runs = <<>>
    /\ overtaken = FALSE
    /\ current = 0
    /\ Furnished
    /\ IdleExtract
    /\ IdleStream

NextRegistry ==
    \/ \E name \in RegNames, handler \in RegHandlers, schema \in RegSchemas :
          register_tool(name, handler, schema)
    \/ \E name \in DirectNames, args \in DirectArgs : Invoke(name, args)
    \/ \E name \in DirectNames, args \in DirectArgs : InvokeConcurrent(name, args)

SpecRegistry == InitRegistry /\ [][NextRegistry]_vars

\* C15: whatever was registered before, each name stands for the handler and the schema
\* of the latest register_tool call made for it: invoke runs that handler and schemas()
\* lists that schema.
C15_LatestRegistrationWins ==
    /\ \A n \in DOMAIN latest :
          \A args \in DirectArgs : invoke(n, args) = CallHandler(latest[n].handler, args)
    /\ schemas = LET names == SelectSeq(NameOrder, LAMBDA n : n \in DOMAIN latest)
                 IN  JArr([i \in 1..Len(names) |-> latest[names[i]].schema])

\* C16: a call of invoke or invoke_concurrent with a name that is not registered ends in
\* the "Tool not found" failure, and it has entered no handler and launched no task.
C16_UnknownNameFailsAtOnce ==
    (direct.api \in {"invoke", "invoke_concurrent"} /\ ~direct.known) =>
        /\ direct.out = ThrewStd(ToolNotFound \o direct.name)
        /\ direct.entered = 0
        /\ direct.launched = 0

\* invoke_concurrent was called with a name never registered while other handlers
\* were registered.
C16_Witness ==
    /\ direct.api = "invoke_concurrent"
    /\ ~direct.known
    /\ direct.out.thrown = "std"
    /\ DOMAIN tools_ = RegNames

(***************************************************************************)
(* handle_tool_call_response                                               *)
(***************************************************************************)
NoToolCallMsg == <<"N", "o", " ", "t", "o", "o", "l", " ", "c", "a", "l", "l", " ", "f", "o", "u", "n", "d", " ", "i", "n", " ", "r", "e", "s", "p", "o", "n", "s", "e">>
\* what() of the json::type_error of value() and of the json::parse_error, shortened.
ValueErrorMsg == <<"c", "a", "n", "n", "o", "t", " ", "u", "s", "e", " ", "v", "a", "l", "u", "e", "(", ")">>
ParseErrorMsg == <<"p", "a", "r", "s", "e", " ", "e", "r", "r", "o", "r">>

\* json entries = api_response; if (api_response.is_object()) { ... } (lines 15-19)
HandleEntries(response) ==
    IF is_object(response)
    THEN (IF contains(response, K_choices) THEN response.o[K_choices]
          ELSE JArr(<<response>>))
    ELSE response

\* Lines 31-35 for the first element that has a "function": both value() calls, the
\* unguarded json::parse, then return invoke(name, args).
HandleFunction(func) ==
    LET name == value_string(func, K_name)
        args_str == IF is_object(func) /\ K_arguments \notin DOMAIN func.o
                    THEN [thrown |-> FALSE, s |-> <<"{", "}">>]
                    ELSE value_string(func, K_arguments)
    IN  IF name.thrown \/ args_str.thrown THEN ThrewStd(ValueErrorMsg)
        ELSE LET args == json_parse(args_str.s)
             IN  IF ~args.ok THEN ThrewStd(ParseErrorMsg)
                 ELSE invoke(name.s, args.v)

\* for (const auto& tc : (*message)["tool_calls"]) from element i on (lines 29-36).
RECURSIVE HandleToolCalls(_, _)
HandleToolCalls(tcs, i) ==
    IF i > Len(tcs) THEN [found |-> FALSE, out |-> Returned(JNull)]
    ELSE IF ~contains(tcs[i], K_function) THEN HandleToolCalls(tcs, i + 1)
    ELSE [found |-> TRUE, out |-> HandleFunction(tcs[i].o[K_function])]

\* for (const auto& choice : entries) from entry i on (lines 21-38), then the throw of
\* line 39. Both tests of lines 23-24 look for "message".
RECURSIVE HandleLoop(_, _)
HandleLoop(entries, i) ==
    IF i > Len(entries) THEN ThrewStd(NoToolCallMsg)
    ELSE LET choice == entries[i]
             message == choice.o[K_message]
         IN  IF ~contains(choice, K_message) THEN HandleLoop(entries, i + 1)
             ELSE IF contains(message, K_tool_calls) /\ is_array(message.o[K_tool_calls])
             THEN LET r == HandleToolCalls(message.o[K_tool_calls].a, 1)
                  IN  IF r.found THEN r.out ELSE HandleLoop(entries, i + 1)
             ELSE HandleLoop(entries, i + 1)

handle_tool_call_response(response) == HandleLoop(IterationOf(HandleEntries(response)), 1)

\* reg.handle_tool_call_response(api_response) called by the user.
HandleToolCallResponse ==
    /\ pc = "idle"
    /\ LET out == handle_tool_call_response(api_response)
       IN  /\ direct' = [api |-> "handle", out |-> out]
           /\ pc' = IF out.thrown = "none" THEN "done" ELSE "raised"
    /\ UNCHANGED <<api_response, concurrent, tools_, calls, results, futs, runs, overtaken, current>>
    /\ UNCHANGED <<evars, schemas_, latest, svars>>

InitHandle == Entered(DiscoverResponses) /\ concurrent = FALSE /\ IdleExtract
SpecHandle == InitHandle /\ [][HandleToolCallResponse]_vars

\* C17: the call ends in an exception whenever the response holds no tool call (no
\* named candidate, which includes a response without entries), and when the response
\* holds one the call ends as the invocation of the first one's handler ends, with the
\* value it returns.
C17_HardFailureOrResult ==
    direct.api = "handle" =>
        LET cs == NamedCandidates(api_response)
        IN  IF cs = <<>> THEN direct.out.thrown # "none"
            ELSE direct.out = invoke(cs[1].o[K_name].s, parse_function_arguments(cs[1]))

(***************************************************************************)
(* Handlers in flight, handlers that never return                          *)
(***************************************************************************)
HangFuncs ==
    { Fn(JStr(N_echo), JStr(T_msg_hi)),
      Fn(JStr(N_bad), JStr(T_empty_obj)),
      Fn(JStr(N_hang), JStr(T_empty_obj)) }

HangResponses == {TestShape(fs) : fs \in SeqsUpTo(HangFuncs, MaxCalls)}

InitHang == Entered(HangResponses) /\ IdleExtract

SpecHang == InitHang /\ [][NextDispatch]_vars

\* The steps of the dispatch once the calls have been discovered.
DispatchSteps ==
    \/ SeqBegin
    \/ SeqInvoke
    \/ SeqReturn
    \/ Launch
    \/ \E i \in 1..Len(futs) : TaskRun(i)
    \/ Join
    \/ ConcReturn

\* The calling thread keeps running, and std::launch::async gives every launched call a
\* thread of its own that the scheduler runs: while some step of the dispatch can be
\* taken, one is taken. Every step moves the dispatch forward, so none is put off
\* for ever.
FairDispatch == WF_vars(DispatchSteps)

SpecHangFair == SpecHang /\ FairDispatch

\* Call i has been handed to its handler (or to its task) and has not finished.
InFlight(i) ==
    IF concurrent THEN i <= Len(futs) /\ futs[i].state = "running"
    ELSE current = i

Finished(i) == runs[i].n = 1

HungCalls == {i \in 1..Len(calls) : Hangs(calls[i].name)}
\* The first of them, Len(calls) + 1 when there is none.
FirstHung ==
    IF HungCalls = {} THEN Len(calls) + 1
    ELSE CHOOSE i \in HungCalls : \A j \in HungCalls : i <= j

\* Every call but the hung ones has been launched and has run to completion, the
\* outcomes before the first hung call have been joined, none after it.
OthersCompleted ==
    /\ Len(futs) = Len(calls)
    /\ \A i \in 1..Len(calls) : IF i \in HungCalls THEN InFlight(i) ELSE Finished(i)
    /\ Len(results) = FirstHung - 1

\* The sequential loop sits in the first hung call; no call after it has been started.
BlockedAtHung ==
    /\ current = FirstHung
    /\ Len(results) = FirstHung - 1
    /\ \A i \in (FirstHung + 1)..Len(calls) : ~Finished(i) /\ ~InFlight(i)

\* C19: when a handler of the response never returns, the dispatch never returns; in
\* sequential mode no call after the hung one is ever started and the loop comes to
\* rest in the hung call; in concurrent mode every other call is launched and finishes,
\* and only the joining of the outcomes stops, at the hung call.
C19_HungHandler ==
    /\ [](HungCalls # {} => pc # "done")
    /\ []((HungCalls # {} /\ ~concurrent) =>
             \A i \in (FirstHung + 1)..Len(calls) : ~Finished(i) /\ ~InFlight(i))
    /\ []((HungCalls # {} /\ concurrent) => Len(results) < FirstHung)
    /\ (HungCalls # {} /\ ~concurrent) ~> BlockedAtHung
    /\ (HungCalls # {} /\ concurrent) ~> OthersCompleted

\* A concurrent dispatch of three calls whose second never returns: the first has been
\* joined, the third has finished, the second is still in flight.
C19_Witness ==
    /\ concurrent
    /\ Len(calls) = 3
    /\ HungCalls = {2}
    /\ OthersCompleted
    /\ futs[1].state = "joined" /\ futs[3].state = "ready"

\* C20: in concurrent mode launching never waits for a handler (while calls are left to
\* launch the next launch can be made whatever the launched ones are doing) and no
\* outcome is waited for before all have been launched; in sequential mode nothing is
\* launched, a call in flight is the only one, the calls before it have finished and
\* the calls after it have not been started.
C20_LaunchAllThenJoin ==
    /\ (pc = "concurrent" /\ Len(futs) < Len(calls)) => (ENABLED Launch /\ results = <<>>)
    /\ (pc = "concurrent" /\ \E i \in 1..Len(futs) : futs[i].state = "joined") =>
           Len(futs) = Len(calls)
    /\ pc = "sequential" =>
           /\ futs = <<>>
           /\ \A i \in 1..Len(calls) :
                 InFlight(i) =>
                     /\ Len(results) = i - 1
                     /\ \A j \in 1..(i - 1) : Finished(j)
                     /\ \A j \in (i + 1)..Len(calls) : ~Finished(j) /\ ~InFlight(j)

\* Every call of a concurrent dispatch of MaxCalls calls is in flight at once.
C20_Witness ==
    /\ pc = "concurrent"
    /\ Len(calls) = MaxCalls
    /\ \A i \in 1..Len(calls) : InFlight(i)

(***************************************************************************)
(* The chunk loop of process_streaming_response_and_execute, as far as the *)
(* buffer is concerned: append a chunk, run the extractor.                 *)
(***************************************************************************)
\* No response is being dispatched.
IdleDispatch ==
    /\ api_response = JNull
    /\ concurrent = FALSE
    /\ tools_ = Registry
    /\ pc = "idle"
    /\ calls = <<>>
    /\ results = <<>>
    /\ futs = <<>>
    /\ runs = <<>>
    /\ overtaken = FALSE
    /\ current = 0
    /\ Furnished
    /\ IdleStream

InitExtract ==
    /\ IdleDispatch
    /\ stream \in StringsUpTo(MaxLen) \cup SampleStreams
    /\ pos = 0
    /\ buffer = <<>>
    /\ emitted = <<>>
    /\ last = NoCall

\* get_chunk hands out the next n bytes (n = 0: an empty chunk); buffer.append(chunk);
\* extract_complete_json_values(buffer).
AppendChunk(n) ==
    /\ last.kind # "flush"
    /\ pos + n <= Len(stream)
    /\ LET r == extract_complete_json_values(buffer \o SubSeq(stream, pos + 1, pos + n))
       IN  /\ buffer' = r.buffer
           /\ emitted' = emitted \o r.out
           /\ last' = [kind |-> "chunk", fresh |-> n > 0, carried |-> buffer # <<>>,
                       found |-> r.out # <<>>]
    /\ pos' = pos + n
    /\ UNCHANGED <<stream, dvars, rvars, svars>>

\* The extractor pass made once get_chunk has returned false: no new data.
FinalFlush ==
    /\ pos = Len(stream)
    /\ last.kind # "flush"
    /\ LET r == extract_complete_json_values(buffer)
       IN  /\ buffer' = r.buffer
           /\ emitted' = emitted \o r.out
           /\ last' = [kind |-> "flush", fresh |-> FALSE, carried |-> buffer # <<>>,
                       found |-> r.out # <<>>]
    /\ UNCHANGED <<stream, pos, dvars, rvars, svars>>

NextExtract ==
    \/ \E n \in 0..Len(stream) : AppendChunk(n)
    \/ FinalFlush

SpecExtract == InitExtract /\ [][NextExtract]_vars

(***************************************************************************)
(* Properties of the extractor                                             *)
(***************************************************************************)
\* What an extractor step was called on and what it returned.
CallInput == buffer \o SubSeq(stream, pos + 1, pos')
CallOutput == SubSeq(emitted', Len(emitted) + 1, Len(emitted'))

\* C5: however the bytes delivered so far were split into chunks, the values
\* extracted so far and the buffer are those of one extractor call on all of them.
C5_ChunkingEquivalence ==
    last.kind # "none" =>
        LET whole == extract_complete_json_values(SubSeq(stream, 1, pos))
        IN  /\ emitted = whole.out
            /\ buffer = whole.buffer

\* A value was completed by a chunk appended to bytes an earlier call had left.
C5_Witness ==
    /\ last.kind = "chunk" /\ last.fresh /\ last.carried /\ last.found
    /\ pos = Len(stream)

\* C6, stated without the scanner: the lexical state after k characters of a text
\* that starts outside any string.
RECURSIVE Lex(_, _)
Lex(t, k) ==
    IF k = 0 THEN "out"
    ELSE LET p == Lex(t, k - 1)
         IN  CASE p = "out" -> IF t[k] = Quote THEN "in" ELSE "out"
               [] p = "in" -> IF t[k] = Backslash THEN "esc"
                              ELSE IF t[k] = Quote THEN "out" ELSE "in"
               [] p = "esc" -> "in"

\* Position k of t holds a character that lies outside every string literal.
Structural(t, k) == Lex(t, k - 1) = "out"

\* Openers minus closers of the family of t[1] among the structural characters t[1..k].
Depth(t, k) ==
    Cardinality({j \in 1..k : Structural(t, j) /\ t[j] = t[1]})
    - Cardinality({j \in 1..k : Structural(t, j) /\ t[j] = Closer(t[1])})

Openers(b) == {k \in 1..Len(b) : b[k] \in {LBrace, LBrack}}

Min(S) == CHOOSE m \in S : \A n \in S : m <= n

\* The values the claim says a call on b emits: from the first opener to the first
\* closer that brings the depth back to zero, then the same on what follows.
RECURSIVE ClaimedValues(_)
ClaimedValues(b) ==
    IF Openers(b) = {} THEN <<>>
    ELSE LET s == Min(Openers(b))
             t == SubSeq(b, s, Len(b))
             closes == {e \in 1..Len(t) : Depth(t, e) = 0}
         IN  IF closes = {} THEN <<>>
             ELSE <<SubSeq(t, 1, Min(closes))>>
                  \o ClaimedValues(SubSeq(t, Min(closes) + 1, Len(t)))

\* C6: every extractor call emits exactly the spans from an opener to the first closer
\* of its family outside strings that returns the depth to zero, where brackets
\* inside string literals, and quotes escaped inside them, count for nothing.
C6_StringAwareDepth == [][CallOutput = ClaimedValues(CallInput)]_vars

HasBracketInString(v) ==
    \E k \in 1..Len(v) : ~Structural(v, k) /\ v[k] \in {LBrace, RBrace, LBrack, RBrack}

HasEscapedQuote(v) == \E k \in 1..Len(v) : Lex(v, k - 1) = "esc" /\ v[k] = Quote

\* A value was emitted that holds, inside a string literal, a bracket and an escaped quote.
C6_Witness ==
    \E i \in 1..Len(emitted) : HasBracketInString(emitted[i]) /\ HasEscapedQuote(emitted[i])

\* C7: after any extractor call, the buffer holds nothing a repeated call with no
\* new data would extract: that call returns nothing and leaves the buffer as it is.
C7_NoCompleteValueLeft ==
    last.kind # "none" =>
        extract_complete_json_values(buffer) = [out |-> <<>>, buffer |-> buffer]

\* A call with no new data was made on a buffer that still held bytes, after values
\* had been extracted.
C7_Witness == ~last.fresh /\ last.carried /\ emitted # <<>> /\ buffer # <<>>

\* b is out[1], out[2], ... in order, each preceded by bytes holding no opener.
RECURSIVE NoiseThenValues(_, _)
NoiseThenValues(b, out) ==
    IF out = <<>> THEN b = <<>>
    ELSE \E n \in 0..Len(b) :
            /\ Openers(SubSeq(b, 1, n)) = {}
            /\ SubSeq(b, n + 1, n + Len(out[1])) = out[1]
            /\ n + Len(out[1]) <= Len(b)
            /\ NoiseThenValues(SubSeq(b, n + Len(out[1]) + 1, Len(b)), Tail(out))

\* C8: a call that emits values removes exactly the prefix that ends with the last of
\* them (the noise before each value going with it) and keeps the rest in order; a
\* call that emits nothing leaves the buffer unchanged.
C8_Step ==
    IF CallOutput = <<>>
    THEN buffer' = CallInput
    ELSE \E k \in 1..Len(CallInput) :
            /\ buffer' = SubSeq(CallInput, k + 1, Len(CallInput))
            /\ NoiseThenValues(SubSeq(CallInput, 1, k), CallOutput)

C8_ConsumesExactPrefix == [][C8_Step]_vars

\* Leading noise went with a value, and bytes after the value stayed in the buffer.
C8_Witness ==
    /\ last.found /\ buffer # <<>>
    /\ stream # <<>> /\ stream[1] \notin {LBrace, LBrack}

(***************************************************************************)
(* process_streaming_response_and_execute                                  *)
(***************************************************************************)
\* {"tool_calls":[{"name":"bad"},{"name":"echo"}]}
P_two ==
    <<"{", "\"", "t", "o", "o", "l", "_", "c", "a", "l", "l", "s", "\"", ":", "[", "{", "\"", "n",
      "a", "m", "e", "\"", ":", "\"", "b", "a", "d", "\"", "}", ",", "{", "\"", "n", "a", "m",
      "e", "\"", ":", "\"", "e", "c", "h", "o", "\"", "}", "]", "}">>
\* [{"function_call":{"name":"ghost"}}]
P_ghost ==
    <<"[", "{", "\"", "f", "u", "n", "c", "t", "i", "o", "n", "_", "c", "a", "l", "l", "\"", ":",
      "{", "\"", "n", "a", "m", "e", "\"", ":", "\"", "g", "h", "o", "s", "t", "\"", "}", "}", "]">>
\* {"tool_calls":[{"name":"echo"},5]}
P_raise ==
    <<"{", "\"", "t", "o", "o", "l", "_", "c", "a", "l", "l", "s", "\"", ":", "[", "{", "\"", "n",
      "a", "m", "e", "\"", ":", "\"", "e", "c", "h", "o", "\"", "}", ",", "5", "]", "}">>
\* {"function_call":{"name":"echo","arguments":"{\"msg\":\"}\"}"}}
P_args ==
    <<"{", "\"", "f", "u", "n", "c", "t", "i", "o", "n", "_", "c", "a", "l", "l", "\"", ":", "{",
      "\"", "n", "a", "m", "e", "\"", ":", "\"", "e", "c", "h", "o", "\"", ",", "\"", "a", "r",
      "g", "u", "m", "e", "n", "t", "s", "\"", ":", "\"", "{", "\\", "\"", "m", "s", "g", "\\",
      "\"", ":", "\\", "\"", "}", "\\", "\"", "}", "\"", "}", "}">>
\* {x}
P_garbled ==
    <<"{", "x", "}">>

\* What the chunk source delivers in all: one payload; a value that does not parse and
\* a payload; two payloads with other bytes between them; a payload whose discovery
\* throws, alone and before another; a payload and the start of the next.
StreamTexts ==
    { P_two, P_ghost, P_raise, P_args,
      P_garbled \o P_ghost,
      P_two \o <<" ", "x">> \o P_ghost,
      P_raise \o P_ghost,
      P_ghost \o <<"{">> }

\* The on_result callbacks explored: one that never throws, one that throws when it is
\* handed an outcome of the "bad" tool.
Sinks == {{}, {N_bad}}

\* process_streaming_response_and_execute(get_chunk, on_result, concurrent) is entered.
InitStream ==
    /\ api_response = JNull
    /\ concurrent \in BOOLEAN
    /\ tools_ = Registry
    /\ pc = "off"
    /\ calls = <<>>
    /\ results = <<>>
    /\ futs = <<>>
    /\ runs = <<>>
    /\ overtaken = FALSE
    /\ current = 0
    /\ Furnished
    /\ stream \in StreamTexts
    /\ pos = 0
    /\ buffer = <<>>
    /\ emitted = <<>>
    /\ last = NoCall
    /\ spc = "poll"
    /\ blobs = <<>>
    /\ batch = <<>>
    /\ delivered = <<>>
    /\ examined = 0
    /\ sink \in Sinks

\* GetChunk that runs the extractor before it appends the chunk: what a chunk completes
\* is found by the next pass only.
GetChunk_ExtractFirst(n) ==
    /\ spc = "poll"
    /\ last.kind # "flush"
    /\ pos + n <= Len(stream)
    /\ LET r == extract_complete_json_values(buffer)
       IN  /\ buffer' = r.buffer \o SubSeq(stream, pos + 1, pos + n)
           /\ emitted' = emitted \o r.out
           /\ last' = [kind |-> "chunk", fresh |-> n > 0, carried |-> buffer # <<>>,
                       found |-> r.out # <<>>]
           /\ blobs' = r.out
    /\ pos' = pos + n
    /\ spc' = "blobs"
    /\ UNCHANGED <<stream, dvars, rvars, sink, batch, delivered, examined>>

\* get_chunk(chunk) returns true with the next n bytes; buffer.append(chunk);
\* json_blobs = extract_complete_json_values(buffer) (lines 226-231).
GetChunk(n) ==
    /\ spc = "poll"
    /\ last.kind # "flush"
    /\ pos + n <= Len(stream)
    /\ LET r == extract_complete_json_values(buffer \o SubSeq(stream, pos + 1, pos + n))
       IN  /\ buffer' = r.buffer
           /\ emitted' = emitted \o r.out
           /\ last' = [kind |-> "chunk", fresh |-> n > 0, carried |-> buffer # <<>>,
                       found |-> r.out # <<>>]
           /\ blobs' = r.out
    /\ pos' = pos + n
    /\ spc' = "blobs"
    /\ UNCHANGED <<stream, dvars, rvars, sink, batch, delivered, examined>>

\* get_chunk returns false, the loop is left (line 227);
\* final_blobs = extract_complete_json_values(buffer) (line 244).
EndOfChunks ==
    /\ spc = "poll"
    /\ last.kind # "flush"
    /\ pos = Len(stream)
    /\ LET r == extract_complete_json_values(buffer)
       IN  /\ buffer' = r.buffer
           /\ emitted' = emitted \o r.out
           /\ last' = [kind |-> "flush", fresh |-> FALSE, carried |-> buffer # <<>>,
                       found |-> r.out # <<>>]
           /\ blobs' = r.out
    /\ spc' = "blobs"
    /\ UNCHANGED <<stream, pos, dvars, rvars, sink, batch, delivered, examined>>

\* TakeBlob with the try around the whole loop: a value that does not parse ends the
\* loop over the values extracted with it.
TakeBlob_AbortOnFailure ==
    /\ spc = "blobs"
    /\ blobs # <<>>
    /\ examined' = examined + 1
    /\ LET obj == json_parse(Head(blobs))
       IN  IF obj.ok
           THEN /\ blobs' = Tail(blobs)
                /\ api_response' = obj.v
                /\ pc' = "idle"
                /\ calls' = <<>> /\ results' = <<>> /\ futs' = <<>> /\ runs' = <<>>
                /\ overtaken' = FALSE /\ current' = 0
                /\ spc' = "dispatching"
           ELSE /\ blobs' = <<>>
                /\ UNCHANGED <<api_response, pc, calls, results, futs, runs, overtaken, current, spc>>
    /\ UNCHANGED <<concurrent, tools_, evars, rvars, sink, batch, delivered>>

\* The loop over the extracted values reaches its next value s: json obj =
\* json::parse(s) (lines 232-234, 245-247). When it parses,
\* process_remote_response_and_execute(obj, concurrent) is entered; when it does not,
\* catch (...) takes the parse error and the loop goes on.
TakeBlob ==
    /\ spc = "blobs"
    /\ blobs # <<>>
    /\ blobs' = Tail(blobs)
    /\ examined' = examined + 1
    /\ LET obj == json_parse(Head(blobs))
       IN  IF obj.ok
           THEN /\ api_response' = obj.v
                /\ pc' = "idle"
                /\ calls' = <<>> /\ results' = <<>> /\ futs' = <<>> /\ runs' = <<>>
                /\ overtaken' = FALSE /\ current' = 0
                /\ spc' = "dispatching"
           ELSE UNCHANGED <<api_response, pc, calls, results, futs, runs, overtaken, current, spc>>
    /\ UNCHANGED <<concurrent, tools_, evars, rvars, sink, batch, delivered>>

\* auto batch = process_remote_response_and_execute(obj, concurrent); has returned.
TakeBatch ==
    /\ spc = "dispatching"
    /\ pc = "done"
    /\ batch' = results
    /\ spc' = "deliver"
    /\ pc' = "off"
    /\ UNCHANGED <<api_response, concurrent, tools_, calls, results, futs, runs, overtaken, current>>
    /\ UNCHANGED <<evars, rvars, sink, blobs, delivered, examined>>

\* process_remote_response_and_execute has thrown: catch (...) {} (lines 237, 250).
Swallow ==
    /\ spc = "dispatching"
    /\ pc = "raised"
    /\ spc' = "blobs"
    /\ pc' = "off"
    /\ UNCHANGED <<api_response, concurrent, tools_, calls, results, futs, runs, overtaken, current>>
    /\ UNCHANGED <<evars, rvars, sink, blobs, batch, delivered, examined>>

\* OnResult with the try inside the loop over batch: after on_result has thrown, the
\* loop goes on with the next outcome.
OnResult_ResumesBatch ==
    /\ spc = "deliver"
    /\ batch # <<>>
    /\ delivered' = Append(delivered, [value |-> examined, r |-> Head(batch)])
    /\ batch' = Tail(batch)
    /\ UNCHANGED <<dvars, evars, rvars, sink, spc, blobs, examined>>

\* for (const auto& r : batch) on_result(r); one iteration (lines 236, 249). When
\* on_result throws, the exception leaves the loop over batch and catch (...) {}
\* takes it (lines 237-239, 250-252): the loop over the values goes on.
OnResult ==
    /\ spc = "deliver"
    /\ batch # <<>>
    /\ delivered' = Append(delivered, [value |-> examined, r |-> Head(batch)])
    /\ IF Head(batch).tool_name \in sink
       THEN batch' = <<>> /\ spc' = "blobs"
       ELSE batch' = Tail(batch) /\ spc' = spc
    /\ UNCHANGED <<dvars, evars, rvars, sink, blobs, examined>>

\* The loop over batch is through.
BatchDone ==
    /\ spc = "deliver"
    /\ batch = <<>>
    /\ spc' = "blobs"
    /\ UNCHANGED <<dvars, evars, rvars, sink, blobs, batch, delivered, examined>>

\* The loop over the extracted values is through: back to get_chunk, or out of the
\* function after the final flush.
BlobsDone ==
    /\ spc = "blobs"
    /\ blobs = <<>>
    /\ spc' = IF last.kind = "flush" THEN "finished" ELSE "poll"
    /\ UNCHANGED <<dvars, evars, rvars, sink, blobs, batch, delivered, examined>>

NextStream ==
    \/ \E n \in (0..MaxChunk) \cup {Len(stream) - pos} : GetChunk(n)
    \/ EndOfChunks
    \/ TakeBlob
    \/ NextDispatch
    \/ TakeBatch
    \/ Swallow
    \/ OnResult
    \/ BatchDone
    \/ BlobsDone

SpecStream == InitStream /\ [][NextStream]_vars

(***************************************************************************)
(* Properties of the streaming function                                    *)
(***************************************************************************)
\* The outcomes passed to on_result, without the value they came from.
Outcomes(ds) == [i \in 1..Len(ds) |-> ds[i].r]

\* The outcomes the engine is to produce for a response: one per named candidate, in
\* discovery order (C9), each the outcome of its own invocation (C2).
ClaimedOutcomes(response) ==
    LET cs == NamedCandidates(response)
    IN  [i \in 1..Len(cs) |->
            ExecuteCall(cs[i].o[K_name].s, parse_function_arguments(cs[i]))]

\* The on_result calls value v of the stream is to produce: none when it does not parse.
ClaimedDeliveries(v) ==
    LET obj == json_parse(emitted[v])
    IN  IF obj.ok
        THEN LET rs == ClaimedOutcomes(obj.v)
             IN  [i \in 1..Len(rs) |-> [value |-> v, r |-> rs[i]]]
        ELSE <<>>

\* C12: when the function returns, on_result (one that does not throw) has been called
\* exactly once for each outcome of each extracted value that parses, in discovery order
\* within a value, and the values in the order of their completion in the stream.
C12_EachValueDispatchedOnce ==
    (spc = "finished" /\ sink = {}) =>
        delivered = Flatten([v \in 1..Len(emitted) |-> ClaimedDeliveries(v)])

\* C13: when the stream is the text of one payload, cut into chunks in any way, the
\* non-streaming call on the parsed payload returns an outcome list and on_result (one
\* that does not throw) has been passed exactly that list, in order, when the streaming
\* function returns.
C13_SameAsNonStreaming ==
    (spc = "finished" /\ sink = {} /\ json_parse(stream).ok) =>
        LET d == DiscoverCalls(json_parse(stream).v)
        IN  /\ ~d.thrown
            /\ Outcomes(delivered) =
                   [i \in 1..Len(d.out) |-> ExecuteCall(d.out[i].name, d.out[i].args)]

\* The batch the code obtains for value v, as on_result calls: empty when the value
\* does not parse or its discovery throws.
Produced(v) ==
    LET obj == json_parse(emitted[v])
    IN  IF obj.ok /\ ~DiscoverCalls(obj.v).thrown
        THEN LET cs == DiscoverCalls(obj.v).out
             IN  [i \in 1..Len(cs) |-> [value |-> v, r |-> ExecuteCall(cs[i].name, cs[i].args)]]
        ELSE <<>>

\* The calls of ds in which on_result throws.
Throwing(ds) == {k \in 1..Len(ds) : ds[k].r.tool_name \in sink}

\* ds up to and with the first call in which on_result throws.
UpToThrow(ds) ==
    IF Throwing(ds) = {}
    THEN ds
    ELSE SubSeq(ds, 1, CHOOSE k \in Throwing(ds) : \A j \in Throwing(ds) : k <= j)

\* What the code passes to on_result for value v: its batch, up to the call in which
\* on_result throws.
Deliveries(v) == UpToThrow(Produced(v))

\* C14: no on_result call ever comes from a value that does not parse; the loop takes up
\* every value extracted, those after such a value too; and when the function returns,
\* which it always does without raising, every value has had its outcomes delivered.
C14_UnparsableSkipped ==
    /\ \A k \in 1..Len(delivered) : json_parse(emitted[delivered[k].value]).ok
    /\ examined + Len(blobs) = Len(emitted)
    /\ spc = "finished" =>
          /\ examined = Len(emitted)
          /\ delivered = Flatten([v \in 1..Len(emitted) |-> Deliveries(v)])

\* The function has returned; a value that did not parse was followed by a value whose
\* outcome was delivered.
C14_Witness ==
    /\ spc = "finished"
    /\ \E v, w \in 1..Len(emitted) :
          /\ v < w
          /\ ~json_parse(emitted[v]).ok
          /\ \E k \in 1..Len(delivered) : delivered[k].value = w

\* Every call of the response being dispatched, or dispatched last, has been joined.
AllJoined ==
    /\ Len(futs) = Len(calls)
    /\ \A i \in 1..Len(futs) : futs[i].state = "joined"

\* C18: in concurrent mode, a step that calls on_result or polls the chunk source is
\* taken only when every handler launched has finished and been joined: no handler is
\* in flight beside an on_result call or a get_chunk call.
C18_Step ==
    (concurrent /\ (delivered' # delivered \/ pos' # pos \/ last' # last)) => AllJoined

C18_DeliveryAfterJoin == [][C18_Step]_vars

\* In concurrent mode the second outcome of a value is about to be delivered, the
\* first has been; the second call had finished before the first.
C18_Witness ==
    /\ concurrent /\ overtaken
    /\ spc = "deliver" /\ delivered # <<>> /\ batch # <<>>
    /\ Len(futs) >= 2

\* C21: the extractor pass made after the chunk source is exhausted finds no value,
\* whatever the chunks were: nothing is left to parse or dispatch, and from that pass
\* on no outcome is being delivered.
C21_FlushFindsNothing ==
    last.kind = "flush" =>
        /\ ~last.found
        /\ blobs = <<>> /\ batch = <<>>
        /\ spc \in {"blobs", "finished"}
        /\ pc = "off"

\* The function has returned after a final pass over bytes that were left in the
\* buffer; outcomes of an earlier value of the stream had been delivered.
C21_Witness ==
    /\ spc = "finished"
    /\ last.kind = "flush" /\ last.carried
    /\ delivered # <<>>
    /\ buffer # <<>>

\* C22: when on_result throws on an outcome of a value, the function does not raise, no
\* further outcome of that value is ever passed to on_result, and the values and chunks
\* after it are processed as usual: every later value extracted is taken up, and when
\* the function returns each value has had its outcomes delivered up to the call that
\* threw.
C22_OnResultFailureSwallowed ==
    /\ \A k \in Throwing(delivered) :
          \A j \in 1..Len(delivered) : j > k => delivered[j].value > delivered[k].value
    /\ (batch # <<>> /\ delivered # <<>> /\ delivered[Len(delivered)].value = examined) =>
          Throwing(delivered) \cap {Len(delivered)} = {}
    /\ spc = "finished" =>
          /\ examined = Len(emitted)
          /\ delivered = Flatten([v \in 1..Len(emitted) |-> UpToThrow(Produced(v))])

\* The function has returned; on_result threw on the first of the two outcomes of a
\* value, and an outcome of a value completed by a later chunk was delivered after it.
C22_Witness ==
    /\ spc = "finished"
    /\ pos = Len(stream)
    /\ \E k \in Throwing(delivered) :
          /\ Len(Produced(delivered[k].value)) = 2
          /\ delivered[k] = Produced(delivered[k].value)[1]
          /\ \E j \in 1..Len(delivered) : j > k /\ delivered[j].value > delivered[k].value

====
